---- MODULE Spec2Model ----
(***************************************************************************)
(* IndxNodeLoader: the command-line entry point (main), the dataset        *)
(* descriptor registry (getConfig), the authentication helpers             *)
(* (setBearerToken, login), the API wrappers and the load orchestrator     *)
(* (loadDataset).                                                          *)
(*                                                                         *)
(* The program is one async control flow.  A step of the model is one      *)
(* resumption of that flow: the response of the request it is suspended    *)
(* on (or the expiry of a polling sleep) arrives, the code runs            *)
(* synchronously to its next await, and there it has either issued the     *)
(* next request, started a sleep, returned, or ended the process.          *)
(***************************************************************************)
EXTENDS Integers, Sequences, FiniteSets, TLC

VARIABLES
    pc,        \* the await the control flow is suspended on, or "done"/"exited"
    env,       \* command line, .env.local and the local file system (inputs)
    dataset,   \* main's `dataset`
    config,    \* main's `config` (the descriptor, or Null)
    client,    \* the axios instance's defaults (Authorization header)
    local,     \* loadDataset's local variables assigned so far
    log,       \* every HTTP request issued, in order, with its call site
    inflight,  \* indices in log of the requests still awaiting a response
    seen,      \* call site -> class of the last response received there,
               \* for the calls whose failure ends the run
    last,      \* call site and class of the most recent response
    out,       \* the status-tagged console messages written so far
    summary,   \* the items of the final 'Dataset Load Complete' summary
    exitCode   \* <<>> while the process runs, <<code>> once it has ended

vars == <<pc, env, dataset, config, client, local, log, inflight, seen, last,
          out, summary, exitCode>>

(***************************************************************************)
(* Bounds of the model.                                                    *)
(***************************************************************************)
\* Status polls one waiting loop may be answered "keep waiting".
MaxPolls == 2
\* Records the remote service returns to the test search.
MaxRecords == 2

(***************************************************************************)
(* Values.                                                                 *)
(***************************************************************************)
\* JavaScript null / undefined.
Null == [null |-> TRUE]
\* A response body that is a JSON array or number.
Json(v) == [json |-> v]

\* enum SystemState
Hibernated == -1
Created == 0
Loading == 1
Loaded == 2
Indexing == 3
Ready == 4
Error == 255
SystemState == {Hibernated, Created, Loading, Loaded, Indexing, Ready, Error}

\* enum Weight
High == 0
Med == 1
Low == 2

\* BoostStrength.High
BoostStrengthHigh == 3

\* Strings the program converts or compares are sequences of characters.
UpperCase == <<"A", "B", "C", "D", "E", "F", "G", "H", "I", "J", "K", "L", "M",
               "N", "O", "P", "Q", "R", "S", "T", "U", "V", "W", "X", "Y", "Z">>
LowerCase == <<"a", "b", "c", "d", "e", "f", "g", "h", "i", "j", "k", "l", "m",
               "n", "o", "p", "q", "r", "s", "t", "u", "v", "w", "x", "y", "z">>

\* String.prototype.toLowerCase on one character.
LowerOf ==
    [c \in {UpperCase[i] : i \in 1..Len(UpperCase)} |->
        LowerCase[CHOOSE i \in 1..Len(UpperCase) : UpperCase[i] = c]]
LowerChar(c) == IF c \in DOMAIN LowerOf THEN LowerOf[c] ELSE c

\* A lookup that takes the name as it is typed.
toLowerCase_AsTyped(s) == s

\* String.prototype.toLowerCase.
toLowerCase(s) == [i \in 1..Len(s) |-> LowerChar(s[i])]

tmdb == <<"t", "m", "d", "b">>
pokedex == <<"p", "o", "k", "e", "d", "e", "x">>

\* getConfig returning nothing but the default branch (a registry that
\* resolves every name).
getConfig_AlwaysTmdb(datasetName) ==
    [name |-> tmdb,
     filePath |-> "data/tmdb_top10k.json",
     searchableFields |-> <<[name |-> "title", weight |-> High]>>,
     wordIndexingFields |-> <<"title">>,
     filterableFields |-> <<"release_year">>,
     facetableFields |-> <<"release_year">>,
     sortableFields |-> <<"popularity", "vote_average">>,
     testQuery |-> "titanic"]

getConfig(datasetName) ==
    LET lowerName == toLowerCase(datasetName) IN
    CASE lowerName = tmdb ->
           [name |-> tmdb,
            filePath |-> "data/tmdb_top10k.json",
            searchableFields |->
                <<[name |-> "title", weight |-> High],
                  [name |-> "original_title", weight |-> Med],
                  [name |-> "description", weight |-> Med],
                  [name |-> "actors", weight |-> Low]>>,
            wordIndexingFields |-> <<"title">>,
            filterableFields |->
                <<"release_year", "vote_average", "vote_count_tier", "genres",
                  "decade", "actors", "language">>,
            facetableFields |->
                <<"release_year", "vote_average", "vote_count_tier", "genres",
                  "decade", "actors", "language">>,
            sortableFields |-> <<"popularity", "vote_average">>,
            testQuery |-> "titanic"]
      [] lowerName = pokedex ->
           [name |-> pokedex,
            filePath |-> "data/pokedex.json",
            searchableFields |->
                <<[name |-> "name", weight |-> High],
                  [name |-> "type1", weight |-> Med],
                  [name |-> "type2", weight |-> Low]>>,
            wordIndexingFields |-> <<"name", "type1", "type2">>,
            filterableFields |->
                <<"speed", "attack", "hp", "type1", "type2", "is_legendary">>,
            facetableFields |->
                <<"speed", "attack", "hp", "type1", "type2", "is_legendary">>,
            sortableFields |-> <<"name", "speed">>,
            testQuery |-> "raic"]
      [] OTHER -> Null

getAvailableDatasets == <<tmdb, pokedex>>

(***************************************************************************)
(* Inputs.                                                                 *)
(***************************************************************************)
\* Values of the --dataset option; <<>> is the option left out.
DatasetArgs ==
    {<<>>, <<"T", "M", "D", "B">>, <<"P", "o", "k", "e", "D", "e", "x">>,
     <<"t", "m", "d">>, <<"t", "m", "d", "b", "2">>, <<"I", "M", "D", "B">>}

\* The text 'localhost' main looks for in the address.
localhost ==
    <<"l", "o", "c", "a", "l", "h", "o", "s", "t">>
\* 'https://localhost:5001/', the address used when API_URI is not set.
DefaultUri ==
    <<"h", "t", "t", "p", "s", ":", "/", "/", "l", "o", "c", "a", "l", "h",
      "o", "s", "t", ":", "5", "0", "0", "1", "/">>
\* Values of API_URI in .env.local; <<>> is the variable left out.  A remote
\* service, a remote host whose name starts with 'localhost', a remote
\* service with 'localhost' in its path, and the loopback address.
RemoteUri ==
    <<"h", "t", "t", "p", "s", ":", "/", "/", "a", "p", "i", ".", "i", "o",
      "/">>
LocalhostDomainUri ==
    <<"h", "t", "t", "p", "s", ":", "/", "/", "l", "o", "c", "a", "l", "h",
      "o", "s", "t", ".", "i", "o", "/">>
LocalhostPathUri ==
    <<"h", "t", "t", "p", "s", ":", "/", "/", "a", "p", "i", ".", "i", "o",
      "/", "l", "o", "c", "a", "l", "h", "o", "s", "t">>
LoopbackUri ==
    <<"h", "t", "t", "p", "s", ":", "/", "/", "1", "2", "7", ".", "0", ".",
      "0", ".", "1", ":", "5", "0", "0", "1", "/">>
ApiUris == {<<>>, RemoteUri, LocalhostDomainUri, LocalhostPathUri, LoopbackUri}

\* State of a data file on disk.
FileStates == {"missing", "empty", "invalid", "valid"}
FilePaths == {"data/tmdb_top10k.json", "data/pokedex.json"}
\* The data directory: both files in the same state.
FileSystems == {[p \in FilePaths |-> st] : st \in FileStates}
\* The data directories tried with every kind of credentials.
PlainFileSystems == {[p \in FilePaths |-> st] : st \in {"missing", "valid"}}

\* BEARER_TOKEN, USER_EMAIL and USER_PASSWORD of .env.local.
Credentials ==
    {<<"tok", "", "">>, <<"tok", "user@example.com", "secret">>,
     <<"", "user@example.com", "secret">>, <<"", "user@example.com", "">>,
     <<"", "", "secret">>, <<"", "", "">>}

\* HTTP status codes a response may carry.
Statuses == {199, 200, 299, 300, 404}

\* A request that threw (no response, or an error the client raised).
Threw == [threw |-> TRUE, status |-> 0, data |-> Null]
\* The responses whose body is one of `bodies`.
Responses(bodies) ==
    {Threw} \cup [threw : {FALSE}, status : Statuses, data : bodies]

\* Class of a response: thrown, answered 2xx, or answered otherwise.
Outcome(r) ==
    IF r.threw THEN "throw"
    ELSE IF r.status \in 200..299 THEN "2xx" ELSE "non2xx"

\* JavaScript truthiness of a string (a sequence of characters).
Truthy(s) == Len(s) > 0
\* Every string read as set, an unset variable included.
TruthyStr_Always(s) == TRUE

\* JavaScript truthiness of an opaque string (a token, an address, a password).
TruthyStr(s) == s # ""

(***************************************************************************)
(* Control-flow helpers: how a step ends.                                  *)
(***************************************************************************)
\* A request as the client sends it.
Request(method, op, cfg, cl, body) ==
    [method |-> method, op |-> op, ds |-> cfg.name,
     auth |-> cl.Authorization, body |-> body]

\* A request issued without the await, next to the ones still outstanding.
Send_Parallel(site, req) ==
    /\ pc' = site
    /\ log' = Append(log, [site |-> site, req |-> req])
    /\ inflight' = inflight \cup {Len(log) + 1}
    /\ exitCode' = exitCode

\* The step ends awaiting the response of a newly issued request.
Send(site, req) ==
    /\ pc' = site
    /\ log' = Append(log, [site |-> site, req |-> req])
    /\ inflight' = {Len(log) + 1}
    /\ exitCode' = exitCode

\* The step ends awaiting something that is not a request.
Suspend(site) ==
    /\ pc' = site
    /\ log' = log
    /\ inflight' = {}
    /\ exitCode' = exitCode

\* main returns: the process ends normally.
Return ==
    /\ pc' = "done"
    /\ log' = log
    /\ inflight' = {}
    /\ exitCode' = <<0>>

\* process.exit(code)
\* An exit that reports success.
ProcessExit_Success(code) ==
    /\ pc' = "exited"
    /\ log' = log
    /\ inflight' = {}
    /\ exitCode' = <<0>>

ProcessExit(code) ==
    /\ pc' = "exited"
    /\ log' = log
    /\ inflight' = {}
    /\ exitCode' = <<code % 256>>

\* local variable assignment
Assign(l, name, value) ==
    [n \in DOMAIN l \cup {name} |-> IF n = name THEN value ELSE l[n]]

\* The response r arrives at a call whose failure ends the run.
Heard(site, r) ==
    /\ seen' = Assign(seen, site, Outcome(r))
    /\ last' = [site |-> site, outcome |-> Outcome(r)]

\* The response r arrives at a best-effort call.
HeardBestEffort(site, r) ==
    /\ seen' = seen
    /\ last' = [site |-> site, outcome |-> Outcome(r)]

Say(msg) == out' = Append(out, msg)

(***************************************************************************)
(* The API wrappers: what each returns for a response r of its request.    *)
(* A wrapper that ends the process on failure returns Exit.                *)
(***************************************************************************)
Exit == [exit |-> TRUE, value |-> Null]
Value(v) == [exit |-> FALSE, value |-> v]

\* A wrapper that forgets the status check.
createOrOpenDataSet_IgnoresStatus(r) == ~r.threw

createOrOpenDataSet(r) ==
    IF r.threw THEN FALSE ELSE r.status >= 200 /\ r.status < 300

analyze(r) ==
    IF r.threw THEN Null
    ELSE IF r.status >= 200 /\ r.status < 300 THEN r.data ELSE Null

\* getStatus falling through to its final `return null` instead of exiting.
getStatus_ReturnsNull(r) ==
    IF ~r.threw /\ r.status >= 200 /\ r.status < 300
    THEN Value(r.data) ELSE Value(Null)

getStatus(r) ==
    IF r.threw THEN Exit
    ELSE IF r.status >= 200 /\ r.status < 300 THEN Value(r.data) ELSE Exit

getAllFields(r) ==
    IF r.threw THEN Exit
    ELSE IF r.status >= 200 /\ r.status < 300 THEN Value(r.data) ELSE Exit

\* A login that takes the token of any answer, whatever its status.
login_IgnoresStatus(r) ==
    IF r.threw THEN [threw |-> TRUE, token |-> ""]
    ELSE IF r.data # Null /\ TruthyStr(r.data.token)
         THEN [threw |-> FALSE, token |-> r.data.token]
         ELSE [threw |-> FALSE, token |-> ""]

\* login: the token, null (a 2xx response without a token), or a thrown Error.
login(r) ==
    IF r.threw THEN [threw |-> TRUE, token |-> ""]
    ELSE IF r.status >= 200 /\ r.status < 300
         THEN IF r.data # Null /\ TruthyStr(r.data.token)
              THEN [threw |-> FALSE, token |-> r.data.token]
              ELSE [threw |-> FALSE, token |-> ""]
         ELSE [threw |-> TRUE, token |-> ""]

\* The Authorization header `Bearer ${token}`; <<>> is no header.
Bearer(token) == <<"Bearer", token>>

\* setBearerToken leaving the client without the header.
setBearerToken_NoHeader(cl, bearerToken) == cl

setBearerToken(cl, bearerToken) ==
    [cl EXCEPT !.Authorization = Bearer(bearerToken)]

existsSync(filePath) == env.fs[filePath] # "missing"

\* String.prototype.includes: t occurs in s as a run of characters.
includes(s, t) ==
    \E i \in 0..(Len(s) - Len(t)) : SubSeq(s, i + 1, i + Len(t)) = t

\* process.env.API_URI || 'https://localhost:5001/'
uri == IF Truthy(env.apiUri) THEN env.apiUri ELSE DefaultUri

\* The client main creates: no Authorization header yet, and an https agent
\* that rejects unauthorized certificates unless the address includes
\* 'localhost'.
createClient ==
    [Authorization |-> <<>>,
     rejectUnauthorized |-> IF includes(uri, localhost) THEN FALSE ELSE TRUE]

(***************************************************************************)
(* Initial state: the process has started, nothing has run.                *)
(***************************************************************************)
Init ==
    /\ pc = "main"
    /\ env \in [dataset : DatasetArgs,
                bearerToken : {"", "tok"},
                userEmail : {"", "user@example.com"},
                userPassword : {"", "secret"},
                apiUri : ApiUris,
                fs : FileSystems]
    /\ <<env.bearerToken, env.userEmail, env.userPassword>> \in Credentials
    \* an empty or invalid data file is tried with --dataset TMDB and a
    \* bearer token, the interactive menu with a bearer token
    /\ \/ env.fs \in PlainFileSystems
       \/ /\ env.bearerToken = "tok" /\ env.userEmail = ""
          /\ env.dataset = <<"T", "M", "D", "B">>
    /\ \/ Truthy(env.dataset)
       \/ env.bearerToken = "tok" /\ env.userEmail = ""
    \* an address other than the default is tried with --dataset TMDB, a
    \* bearer token and no data file
    /\ \/ ~Truthy(env.apiUri)
       \/ /\ env.bearerToken = "tok" /\ env.userEmail = ""
          /\ env.dataset = <<"T", "M", "D", "B">>
          /\ \A p \in FilePaths : env.fs[p] = "missing"
    /\ dataset = <<>>
    /\ config = Null
    /\ client = [Authorization |-> <<>>, rejectUnauthorized |-> TRUE]
    /\ local = <<>>
    /\ log = <<>>
    /\ inflight = {}
    /\ seen = <<>>
    /\ last = [site |-> "", outcome |-> ""]
    /\ out = <<>>
    /\ summary = Null
    /\ exitCode = <<>>

(***************************************************************************)
(* loadDataset, from its entry to the first await.                         *)
(***************************************************************************)
\* `said` is the console output up to the call.
LoadDatasetStartSaying(said, cfg, cl) ==
    IF cfg = Null
    THEN /\ out' = Append(said, "Unknown dataset")
         /\ Return
    ELSE IF ~existsSync(cfg.filePath)
    THEN /\ out' = Append(said, "Data file not found")
         /\ Return
    ELSE /\ out' = Append(said, "Creating or opening dataset...")
         /\ Send("CreateOrOpen", Request("PUT", "CreateOrOpen", cfg, cl, ""))

LoadDatasetStart(cfg, cl) == LoadDatasetStartSaying(out, cfg, cl)

(***************************************************************************)
(* main, from the chosen dataset name to the next await.                   *)
(***************************************************************************)
MainSelected(d) ==
    LET cfg == getConfig(d) IN
    /\ dataset' = d
    /\ config' = cfg
    /\ UNCHANGED <<env, local, seen, last, summary>>
    /\ IF cfg = Null
       THEN /\ Say("Unknown dataset")
            /\ client' = client
            /\ Return
       ELSE IF TruthyStr(env.bearerToken)
       THEN LET cl == setBearerToken(createClient, env.bearerToken) IN
            /\ client' = cl
            /\ LoadDatasetStart(cfg, cl)
       ELSE IF TruthyStr(env.userEmail) /\ TruthyStr(env.userPassword)
       THEN /\ Say("Authenticating with email and password...")
            /\ client' = createClient
            /\ Send("login",
                    [method |-> "POST", op |-> "login", ds |-> <<>>,
                     auth |-> createClient.Authorization,
                     body |-> [UserEmail |-> env.userEmail,
                               UserPassWord |-> env.userPassword]])
       ELSE /\ Say("No authentication credentials provided")
            /\ client' = createClient
            /\ Return

\* main starts: the --dataset option is read.
MainStart ==
    /\ pc = "main"
    /\ IF ~Truthy(env.dataset)
       THEN /\ Suspend("menu")
            /\ UNCHANGED <<env, dataset, config, client, local, seen, last, out,
                            summary>>
       ELSE MainSelected(env.dataset)

\* The interactive menu is answered: one of the datasets, or '0. Exit'.
MenuAnswer ==
    /\ pc = "menu"
    /\ \E choice \in 0..Len(getAvailableDatasets) :
          IF choice = 0
          THEN /\ Say("No dataset selected. Exiting.")
               /\ Return
               /\ UNCHANGED <<env, dataset, config, client, local, seen, last,
                            summary>>
          ELSE MainSelected(getAvailableDatasets[choice])

\* The login request is answered.
LoginReturn ==
    /\ pc = "login"
    /\ \E r \in Responses({Null, [token |-> ""], [token |-> "jwt"]}) :
          LET token == login(r) IN
          /\ Heard("login", r)
          /\ UNCHANGED <<env, dataset, config, local, summary>>
          /\ IF token.threw
             THEN /\ Say("Fatal error")
                  /\ client' = client
                  /\ ProcessExit(-1)
             ELSE IF ~TruthyStr(token.token)
             THEN /\ Say("Login failed")
                  /\ client' = client
                  /\ Return
             ELSE LET cl == [client EXCEPT !.Authorization = Bearer(token.token)] IN
                  /\ client' = cl
                  /\ LoadDatasetStartSaying(
                         Append(out, "Authentication successful"), config, cl)


(***************************************************************************)
(* loadDataset: Open, Analyze, field discovery.                            *)
(***************************************************************************)
\* What loadDataset never writes.
Frame == UNCHANGED <<env, dataset, config, client, summary>>

Get(op) == Request("GET", op, config, client, "")

\* JSON values of a request body: an object with its named members, an
\* array with its numbered items.
Object(members) == [object |-> members]
Array(items) == [array |-> items]

\* The fields sent as they are declared: {name, weight} objects.
tuples_NameWeight(fields) ==
    Array([i \in 1..Len(fields) |->
              Object([name |-> fields[i].name, weight |-> fields[i].weight])])

\* The fields sent with weight codes counted from one.
tuples_OneBased(fields) ==
    Array([i \in 1..Len(fields) |->
              Object([Item1 |-> fields[i].name, Item2 |-> fields[i].weight + 1])])

\* The body setSearchableFields sends: one {Item1, Item2} object per field.
tuples(fields) ==
    Array([i \in 1..Len(fields) |->
              Object([Item1 |-> fields[i].name, Item2 |-> fields[i].weight])])

\* CreateOrOpen is answered.
CreateOrOpenReturn ==
    /\ pc = "CreateOrOpen"
    /\ \E r \in Responses({Null}) :
          LET createSuccess == createOrOpenDataSet(r) IN
          /\ Heard("CreateOrOpen", r)
          /\ local' = Assign(local, "createSuccess", createSuccess)
          /\ Frame
          /\ IF ~createSuccess
             THEN /\ Say("Failed to create or open dataset.")
                  /\ Return
             ELSE /\ Say("Dataset opened successfully")
                  /\ Send("AnalyzeString",
                          Request("POST", "AnalyzeString", config, client,
                                  env.fs[config.filePath]))

\* AnalyzeString is answered.
AnalyzeReturn ==
    /\ pc = "AnalyzeString"
    /\ \E r \in Responses({Null, [systemState |-> Created]}) :
          LET status0 == analyze(r) IN
          /\ Heard("AnalyzeString", r)
          /\ local' = Assign(local, "status0", status0)
          /\ Frame
          /\ IF status0 = Null
             THEN /\ Say("Failed to analyze data file")
                  /\ Return
             ELSE /\ Say("Data structure analyzed")
                  /\ Send("InitialStatus", Get("GetStatus"))

\* The bodies a GetStatus response may carry.
StatusBodies == {Null} \cup [systemState : SystemState]

\* The status fetch after Analyze ('Get initial status') is answered; its
\* result is not used.
InitialStatusReturn ==
    /\ pc = "InitialStatus"
    /\ \E r \in Responses(StatusBodies) :
          /\ Heard("InitialStatus", r)
          /\ local' = local
          /\ Frame
          /\ IF getStatus(r).exit
             THEN /\ Say("GetStatus request failed")
                  /\ ProcessExit(-1)
             ELSE /\ Say("Discovering fields in dataset...")
                  /\ Send("GetAllFields", Get("GetAllFields"))

\* GetAllFields is answered.  A null list makes `list.length` throw, which
\* main catches as a fatal error.
GetAllFieldsReturn ==
    /\ pc = "GetAllFields"
    /\ \E r \in Responses({Null, Json(<<"title", "name">>)}) :
          LET list == getAllFields(r) IN
          /\ Heard("GetAllFields", r)
          /\ Frame
          /\ IF list.exit
             THEN /\ local' = local
                  /\ Say("GetAllFields request failed")
                  /\ ProcessExit(-1)
             ELSE IF list.value = Null
             THEN /\ local' = Assign(local, "list", Null)
                  /\ Say("Fatal error")
                  /\ ProcessExit(-1)
             ELSE /\ local' = Assign(local, "list", list.value.json)
                  /\ Say("Configuring searchable fields...")
                  /\ Send("SetSearchableFields",
                          Request("PUT", "SetSearchableFields", config, client,
                                  tuples(config.searchableFields)))


(***************************************************************************)
(* loadDataset: field configuration and its verification re-reads.         *)
(***************************************************************************)
\* A set* wrapper that reports success whatever the response.
setFacetableFields_AlwaysTrue(r) == TRUE

setSearchableFields(r) ==
    IF r.threw THEN FALSE ELSE r.status >= 200 /\ r.status < 300
setFilterableFields(r) ==
    IF r.threw THEN FALSE ELSE r.status >= 200 /\ r.status < 300
setFacetableFields(r) ==
    IF r.threw THEN FALSE ELSE r.status >= 200 /\ r.status < 300
setSortableFields(r) ==
    IF r.threw THEN FALSE ELSE r.status >= 200 /\ r.status < 300
setWordIndexingFields(r) ==
    IF r.threw THEN FALSE ELSE r.status >= 200 /\ r.status < 300

getSearchableFields(r) ==
    IF r.threw THEN Exit
    ELSE IF r.status >= 200 /\ r.status < 300 THEN Value(r.data) ELSE Exit
getSortableFields(r) ==
    IF r.threw THEN Exit
    ELSE IF r.status >= 200 /\ r.status < 300 THEN Value(r.data) ELSE Exit
getFacetableFields(r) ==
    IF r.threw THEN Exit
    ELSE IF r.status >= 200 /\ r.status < 300 THEN Value(r.data) ELSE Exit
getFilterableFields(r) ==
    IF r.threw THEN Exit
    ELSE IF r.status >= 200 /\ r.status < 300 THEN Value(r.data) ELSE Exit
getWordIndexingFields(r) ==
    IF r.threw THEN Exit
    ELSE IF r.status >= 200 /\ r.status < 300 THEN Value(r.data) ELSE Exit

Put(op, body) == Request("PUT", op, config, client, body)

SetSearchableFieldsReturn ==
    /\ pc = "SetSearchableFields"
    /\ \E r \in Responses({Null}) :
          LET myres == setSearchableFields(r) IN
          /\ Heard("SetSearchableFields", r)
          /\ local' = Assign(local, "myres", myres)
          /\ Frame
          /\ IF ~myres
             THEN /\ Say("Failed to set searchable fields")
                  /\ Return
             ELSE /\ Say("Configuring filterable fields...")
                  /\ Send("SetFilterableFields",
                          Put("SetFilterableFields", config.filterableFields))

SetFilterableFieldsReturn ==
    /\ pc = "SetFilterableFields"
    /\ \E r \in Responses({Null}) :
          LET myres2 == setFilterableFields(r) IN
          /\ Heard("SetFilterableFields", r)
          /\ local' = Assign(local, "myres2", myres2)
          /\ Frame
          /\ IF ~myres2
             THEN /\ Say("Failed to set filterable fields")
                  /\ Return
             ELSE /\ Say("Configuring facetable fields...")
                  /\ Send("SetFacetableFields",
                          Put("SetFacetableFields", config.facetableFields))

SetFacetableFieldsReturn ==
    /\ pc = "SetFacetableFields"
    /\ \E r \in Responses({Null}) :
          LET facetsResult == setFacetableFields(r) IN
          /\ Heard("SetFacetableFields", r)
          /\ local' = Assign(local, "facetsResult", facetsResult)
          /\ Frame
          /\ IF ~facetsResult
             THEN /\ Say("Failed to set facetable fields")
                  /\ Return
             ELSE /\ Say("Configuring sortable fields...")
                  /\ Send("SetSortableFields",
                          Put("SetSortableFields", config.sortableFields))

SetSortableFieldsReturn ==
    /\ pc = "SetSortableFields"
    /\ \E r \in Responses({Null}) :
          LET sortres == setSortableFields(r) IN
          /\ Heard("SetSortableFields", r)
          /\ local' = Assign(local, "sortres", sortres)
          /\ Frame
          /\ IF ~sortres
             THEN /\ Say("Failed to set sortable fields")
                  /\ Return
             ELSE /\ Say("Configuring word indexing fields...")
                  /\ Send("SetWordIndexingFields",
                          Put("SetWordIndexingFields", config.wordIndexingFields))

SetWordIndexingFieldsReturn ==
    /\ pc = "SetWordIndexingFields"
    /\ \E r \in Responses({Null}) :
          LET wordIndexRes == setWordIndexingFields(r) IN
          /\ Heard("SetWordIndexingFields", r)
          /\ local' = Assign(local, "wordIndexRes", wordIndexRes)
          /\ Frame
          /\ IF ~wordIndexRes
             THEN /\ Say("Failed to set word indexing fields")
                  /\ Return
             ELSE /\ Say("Verifying field configuration...")
                  /\ Send("GetSearchableFields", Get("GetSearchableFields"))


\* A verification re-read is answered: the wrapper's result g is not used,
\* unless the wrapper ended the process.
VerifyReturn(site, r, g, nextReq, nextSite) ==
    /\ Heard(site, r)
    /\ local' = local
    /\ Frame
    /\ ~g.exit
    /\ out' = out
    /\ Send(nextSite, nextReq)

VerifyExit(site, r, g) ==
    /\ Heard(site, r)
    /\ local' = local
    /\ Frame
    /\ g.exit
    /\ Say("request failed")
    /\ ProcessExit(-1)

GetSearchableFieldsReturn ==
    /\ pc = "GetSearchableFields"
    /\ \E r \in Responses({Null, Json(<<>>)}) :
          IF getSearchableFields(r).exit
          THEN VerifyExit("GetSearchableFields", r, getSearchableFields(r))
          ELSE VerifyReturn("GetSearchableFields", r, getSearchableFields(r),
                            Get("GetSortableFields"), "GetSortableFields")

GetSortableFieldsReturn ==
    /\ pc = "GetSortableFields"
    /\ \E r \in Responses({Null, Json(<<>>)}) :
          IF getSortableFields(r).exit
          THEN VerifyExit("GetSortableFields", r, getSortableFields(r))
          ELSE VerifyReturn("GetSortableFields", r, getSortableFields(r),
                            Get("GetFacetableFields"), "GetFacetableFields")

GetFacetableFieldsReturn ==
    /\ pc = "GetFacetableFields"
    /\ \E r \in Responses({Null, Json(<<>>)}) :
          IF getFacetableFields(r).exit
          THEN VerifyExit("GetFacetableFields", r, getFacetableFields(r))
          ELSE VerifyReturn("GetFacetableFields", r, getFacetableFields(r),
                            Get("GetFilterableFields"), "GetFilterableFields")

GetFilterableFieldsReturn ==
    /\ pc = "GetFilterableFields"
    /\ \E r \in Responses({Null, Json(<<>>)}) :
          IF getFilterableFields(r).exit
          THEN VerifyExit("GetFilterableFields", r, getFilterableFields(r))
          ELSE VerifyReturn("GetFilterableFields", r, getFilterableFields(r),
                            Get("GetWordIndexingFields"), "GetWordIndexingFields")

\* loadStreamAsync's request: the file's bytes with their declared length.
LoadStreamRequest ==
    [method |-> "PUT", op |-> "LoadStream", ds |-> config.name,
     auth |-> client.Authorization, body |-> env.fs[config.filePath],
     contentLength |-> env.fs[config.filePath]]

\* The filter example of the pokedex dataset.
RangeFilter == [fieldName |-> "speed", lowerLimit |-> "10.5", upperLimit |-> "50.0"]
ValueFilter == [fieldName |-> "speed", value |-> 50]

\* The filter example run for every dataset.
GetWordIndexingFieldsReturn_AlwaysFilters ==
    /\ pc = "GetWordIndexingFields"
    /\ \E r \in Responses({Null, Json(<<>>)}) :
          IF getWordIndexingFields(r).exit
          THEN VerifyExit("GetWordIndexingFields", r, getWordIndexingFields(r))
          ELSE VerifyReturn("GetWordIndexingFields", r, getWordIndexingFields(r),
                            Put("CreateRangeFilter", RangeFilter),
                            "CreateRangeFilter")

\* The last verification re-read is answered; the optional filter example
\* or the Load phase starts.
GetWordIndexingFieldsReturn ==
    /\ pc = "GetWordIndexingFields"
    /\ \E r \in Responses({Null, Json(<<>>)}) :
          IF getWordIndexingFields(r).exit
          THEN VerifyExit("GetWordIndexingFields", r, getWordIndexingFields(r))
          ELSE IF config.name = pokedex
          THEN VerifyReturn("GetWordIndexingFields", r, getWordIndexingFields(r),
                            Put("CreateRangeFilter", RangeFilter),
                            "CreateRangeFilter")
          ELSE VerifyReturn("GetWordIndexingFields", r, getWordIndexingFields(r),
                            LoadStreamRequest, "LoadStream")


(***************************************************************************)
(* loadDataset: the optional filter/boost example.                         *)
(***************************************************************************)
createRangeFilter(r) ==
    IF r.threw THEN Null
    ELSE IF r.status >= 200 /\ r.status < 300 THEN r.data ELSE Null
\* createValueFilter returning the body of any response, 2xx or not.
createValueFilter_IgnoresStatus(r) ==
    IF r.threw THEN Null ELSE r.data

createValueFilter(r) ==
    IF r.threw THEN Null
    ELSE IF r.status >= 200 /\ r.status < 300 THEN r.data ELSE Null
combineFilters(r) ==
    IF r.threw THEN Null
    ELSE IF r.status >= 200 /\ r.status < 300 THEN r.data ELSE Null
createBoost(r) ==
    IF r.threw THEN Null
    ELSE IF r.status >= 200 /\ r.status < 300 THEN r.data ELSE Null

\* The FilterProxy values the remote service may return.
RangeProxy == [id |-> "f1", fieldName |-> "speed"]
ValueProxy == [id |-> "f2", fieldName |-> "speed"]
CombinedProxy == [id |-> "f3", fieldName |-> "speed"]

\* The filter example returning from loadDataset instead of going on.
SendLoadStream_Returns == Return

SendLoadStream == Send("LoadStream", LoadStreamRequest)

CreateRangeFilterReturn ==
    /\ pc = "CreateRangeFilter"
    /\ \E r \in Responses({Null, RangeProxy}) :
          LET filt1 == createRangeFilter(r) IN
          /\ HeardBestEffort("CreateRangeFilter", r)
          /\ local' = Assign(local, "filt1", filt1)
          /\ Frame
          /\ out' = out
          /\ Send("CreateValueFilter", Put("CreateValueFilter", ValueFilter))

CreateValueFilterReturn ==
    /\ pc = "CreateValueFilter"
    /\ \E r \in Responses({Null, ValueProxy}) :
          LET filt2 == createValueFilter(r) IN
          /\ HeardBestEffort("CreateValueFilter", r)
          /\ local' = Assign(local, "filt2", filt2)
          /\ Frame
          /\ out' = out
          /\ IF local.filt1 # Null /\ filt2 # Null
             THEN Send("CombineFilters",
                       Put("CombineFilters",
                           [a |-> local.filt1, b |-> filt2,
                            useAndOperation |-> TRUE]))
             ELSE SendLoadStream

CombineFiltersReturn ==
    /\ pc = "CombineFilters"
    /\ \E r \in Responses({Null, CombinedProxy}) :
          LET combFilt == combineFilters(r) IN
          /\ HeardBestEffort("CombineFilters", r)
          /\ local' = Assign(local, "combFilt", combFilt)
          /\ Frame
          /\ out' = out
          /\ IF combFilt # Null
             THEN Send("CreateBoost",
                       Put("CreateBoost",
                           [filterProxy |-> combFilt,
                            boostStrength |-> BoostStrengthHigh]))
             ELSE SendLoadStream

CreateBoostReturn ==
    /\ pc = "CreateBoost"
    /\ \E r \in Responses({Null}) :
          /\ HeardBestEffort("CreateBoost", r)
          /\ local' = local
          /\ Frame
          /\ out' = out
          /\ SendLoadStream


(***************************************************************************)
(* loadDataset: Load and the wait for load completion.                     *)
(***************************************************************************)
\* A Load that reports failure whatever the response.
loadStreamAsync_AlwaysFails(r) == FALSE

loadStreamAsync(r) ==
    IF r.threw THEN FALSE ELSE r.status >= 200 /\ r.status < 300

\* The load loop's condition written with the wrong state.
loadProceed_UntilLoaded(status) ==
    IF status # Null THEN status.systemState # Loaded ELSE FALSE

\* A wait for load that gives up after its second poll.
loadProceed_GivesUp(status) ==
    IF status # Null
    THEN status.systemState = Loading /\ local.dotCount < 2
    ELSE FALSE

\* `proceed` as the wait-for-load loop computes it from a poll's result.
loadProceed(status) ==
    IF status # Null THEN status.systemState = Loading ELSE FALSE

\* The index loop's condition copied from the load loop.
indexProceed_WhileIndexing(status) ==
    IF status # Null THEN status.systemState = Indexing ELSE FALSE

\* An index loop that also ends the wait on the Error state.
indexProceed_ExitsOnError(status) ==
    IF status # Null
    THEN status.systemState # Ready /\ status.systemState # Error
    ELSE FALSE

\* `proceed` as the wait-for-index loop computes it from a poll's result.
indexProceed(status) ==
    IF status # Null THEN status.systemState # Ready ELSE FALSE

\* A response that reports the state s.
Reports(r, s) ==
    ~r.threw /\ r.status \in 200..299 /\ r.data # Null /\ r.data.systemState = s

\* A failed load that deletes the half-configured dataset before giving up.
LoadStreamReturn_CleansUp ==
    /\ pc = "LoadStream"
    /\ \E r \in Responses({Null}) :
          LET result2 == loadStreamAsync(r) IN
          /\ Heard("LoadStream", r)
          /\ Frame
          /\ IF ~result2
             THEN /\ local' = Assign(local, "result2", result2)
                  /\ Say("Failed to load data")
                  /\ Send("DeleteDataSet",
                          Request("DELETE", "DeleteDataSet", config, client, ""))
             ELSE /\ local' = Assign(Assign(Assign(local, "result2", result2),
                                            "proceed", TRUE), "dotCount", 0)
                  /\ out' = out
                  /\ Send("LoadStatus", Get("GetStatus"))

\* LoadStream is answered; the first status fetch is issued.
LoadStreamReturn ==
    /\ pc = "LoadStream"
    /\ \E r \in Responses({Null}) :
          LET result2 == loadStreamAsync(r) IN
          /\ Heard("LoadStream", r)
          /\ Frame
          /\ IF ~result2
             THEN /\ local' = Assign(local, "result2", result2)
                  /\ Say("Failed to load data")
                  /\ Return
             ELSE /\ local' = Assign(Assign(Assign(local, "result2", result2),
                                            "proceed", TRUE), "dotCount", 0)
                  /\ out' = out
                  /\ Send("LoadStatus", Get("GetStatus"))

\* The status fetch before the loop is answered; the loop body starts and
\* issues its first poll.
LoadStatusReturn ==
    /\ pc = "LoadStatus"
    /\ \E r \in Responses(StatusBodies) :
          LET g == getStatus(r) IN
          /\ Heard("LoadStatus", r)
          /\ Frame
          /\ IF g.exit
             THEN /\ local' = local
                  /\ Say("GetStatus request failed")
                  /\ ProcessExit(-1)
             ELSE /\ local' = Assign(Assign(local, "status", g.value),
                                     "dotCount", local.dotCount + 1)
                  /\ out' = out
                  /\ Send("LoadPoll", Get("GetStatus"))

\* A poll of the wait-for-load loop is answered; the 100 ms sleep starts.
LoadPollReturn ==
    /\ pc = "LoadPoll"
    /\ \E r \in Responses(StatusBodies) :
          LET g == getStatus(r) IN
          /\ Reports(r, Loading) => local.dotCount <= MaxPolls
          /\ Heard("LoadPoll", r)
          /\ Frame
          /\ IF g.exit
             THEN /\ local' = local
                  /\ Say("GetStatus request failed")
                  /\ ProcessExit(-1)
             ELSE /\ local' = Assign(Assign(local, "status", g.value),
                                     "proceed", loadProceed(g.value))
                  /\ out' = out
                  /\ Suspend("LoadSleep")

\* A load wait that sleeps again without fetching the status anew.
LoadSleepWake_NoRefetch ==
    /\ pc = "LoadSleep"
    /\ UNCHANGED <<seen, last>>
    /\ Frame
    /\ IF local.proceed
       THEN /\ local' = local
            /\ out' = out
            /\ Suspend("LoadSleep")
       ELSE /\ local' = local
            /\ Say("Data loaded")
            /\ Send("GetNumberOfJsonRecordsInDb", Get("GetNumberOfJsonRecordsInDb"))

\* The sleep of the wait-for-load loop ends; `while (proceed)` is decided.
LoadSleepWake ==
    /\ pc = "LoadSleep"
    /\ UNCHANGED <<seen, last>>
    /\ Frame
    /\ IF local.proceed
       THEN /\ local' = Assign(local, "dotCount", local.dotCount + 1)
            /\ out' = out
            /\ Send("LoadPoll", Get("GetStatus"))
       ELSE /\ local' = local
            /\ Say("Data loaded")
            /\ Send("GetNumberOfJsonRecordsInDb", Get("GetNumberOfJsonRecordsInDb"))


(***************************************************************************)
(* loadDataset: record count, Index and the wait for index completion.     *)
(***************************************************************************)
\* A record count that is missing when its fetch fails.
getNumberOfJsonRecordsInDb_NoCount(r) ==
    IF r.threw THEN Null
    ELSE IF r.status >= 200 /\ r.status < 300 THEN r.data ELSE Null

getNumberOfJsonRecordsInDb(r) ==
    IF r.threw THEN Json(0)
    ELSE IF r.status >= 200 /\ r.status < 300 THEN r.data ELSE Json(0)

\* An index trigger whose failure goes unnoticed.
indexDataSet_IgnoresStatus(r) == TRUE

indexDataSet(r) ==
    IF r.threw THEN FALSE ELSE r.status >= 200 /\ r.status < 300

\* Record counts the remote service may report.
RecordCounts == {0, 10000}

\* The record count is answered.  A failure counts as 0; a null body makes
\* formatting the count throw, which main catches as a fatal error.
RecordCountReturn ==
    /\ pc = "GetNumberOfJsonRecordsInDb"
    /\ \E r \in Responses({Null} \cup {Json(n) : n \in RecordCounts}) :
          LET numberOfRecords == getNumberOfJsonRecordsInDb(r) IN
          /\ HeardBestEffort("GetNumberOfJsonRecordsInDb", r)
          /\ Frame
          /\ IF numberOfRecords = Null
             THEN /\ local' = local
                  /\ Say("Fatal error")
                  /\ ProcessExit(-1)
             ELSE /\ local' = Assign(local, "numberOfRecords", numberOfRecords.json)
                  /\ Say("Indexing dataset (this may take a moment)...")
                  /\ Send("IndexDataSet", Get("IndexDataSet"))

\* An Index phase that asks again when the trigger fails.
IndexReturn_Retries ==
    /\ pc = "IndexDataSet"
    /\ \E r \in Responses({Null}) :
          LET success == indexDataSet(r) IN
          /\ Heard("IndexDataSet", r)
          /\ Frame
          /\ out' = out
          /\ IF ~success
             THEN /\ local' = Assign(local, "success", success)
                  /\ Send("IndexDataSet", Get("IndexDataSet"))
             ELSE /\ local' = Assign(Assign(Assign(local, "success", success),
                                            "proceed", TRUE), "dotCount", 1)
                  /\ Send("IndexPoll", Get("GetStatus"))

\* IndexDataSet is answered; the wait-for-index loop issues its first poll.
IndexReturn ==
    /\ pc = "IndexDataSet"
    /\ \E r \in Responses({Null}) :
          LET success == indexDataSet(r) IN
          /\ Heard("IndexDataSet", r)
          /\ Frame
          /\ IF ~success
             THEN /\ local' = Assign(local, "success", success)
                  /\ Say("Failed to start indexing")
                  /\ Return
             ELSE /\ local' = Assign(Assign(Assign(local, "success", success),
                                            "proceed", TRUE), "dotCount", 1)
                  /\ out' = out
                  /\ Send("IndexPoll", Get("GetStatus"))

\* A poll of the wait-for-index loop is answered; the 100 ms sleep starts.
IndexPollReturn ==
    /\ pc = "IndexPoll"
    /\ \E r \in Responses(StatusBodies) :
          LET g == getStatus(r) IN
          /\ (\E s \in SystemState \ {Ready} : Reports(r, s))
                => local.dotCount <= MaxPolls
          /\ Heard("IndexPoll", r)
          /\ Frame
          /\ IF g.exit
             THEN /\ local' = local
                  /\ Say("GetStatus request failed")
                  /\ ProcessExit(-1)
             ELSE /\ local' = Assign(Assign(local, "status", g.value),
                                     "proceed", indexProceed(g.value))
                  /\ out' = out
                  /\ Suspend("IndexSleep")

\* A test search that asks for no sort order.
query_Unsorted ==
    [text |-> config.testQuery,
     maxNumberOfRecordsToReturn |-> 5,
     sortBy |-> "",
     enableFacets |-> FALSE,
     enableBoost |-> FALSE]

\* The CloudQuery of the test search.
query ==
    [text |-> config.testQuery,
     maxNumberOfRecordsToReturn |-> 5,
     sortBy |-> IF Len(config.sortableFields) > 0
                THEN config.sortableFields[1] ELSE "",
     enableFacets |-> FALSE,
     enableBoost |-> FALSE]

\* The sleep of the wait-for-index loop ends; `while (proceed)` is decided.
IndexSleepWake ==
    /\ pc = "IndexSleep"
    /\ UNCHANGED <<seen, last>>
    /\ Frame
    /\ IF local.proceed
       THEN /\ local' = Assign(local, "dotCount", local.dotCount + 1)
            /\ out' = out
            /\ Send("IndexPoll", Get("GetStatus"))
       ELSE /\ local' = local
            /\ Say("Index built")
            /\ Send("Search", Request("POST", "Search", config, client, query))


(***************************************************************************)
(* loadDataset: the test search, the document lookups and the summary.     *)
(***************************************************************************)
\* search returning the body of any response, 2xx or not.
search_IgnoresStatus(r) ==
    IF r.threw THEN Null ELSE r.data

search(r) ==
    IF r.threw THEN Null
    ELSE IF r.status >= 200 /\ r.status < 300 THEN r.data ELSE Null

\* getJson falling through to its final `return []` instead of exiting.
getJson_ReturnsEmpty(r) ==
    IF r.threw THEN Value(Json(<<>>))
    ELSE IF r.status >= 200 /\ r.status < 300
         THEN Value(r.data) ELSE Value(Json(<<>>))

getJson(r) ==
    IF r.threw THEN Exit
    ELSE IF r.status >= 200 /\ r.status < 300 THEN Value(r.data) ELSE Exit

\* Document keys and records the remote service may return.
DocumentKeys == {7, 9}
SearchRecords == [documentKey : DocumentKeys, score : {1}]
RECURSIVE ListsOfLen(_)
ListsOfLen(n) ==
    IF n = 0 THEN {<<>>}
    ELSE {Append(l, rec) : l \in ListsOfLen(n - 1), rec \in SearchRecords}
RecordLists == UNION {ListsOfLen(n) : n \in 0..MaxRecords}
\* A Result body: null, one without a record list, or one with a list.
SearchBodies ==
    {Null, [didTimeOut |-> FALSE]} \cup [records : RecordLists, didTimeOut : {FALSE}]
\* JavaScript `!res.records`
NoRecords(res) == "records" \notin DOMAIN res

\* A lookup that carries the record's score in place of its document key.
GetJsonRequest_ByScore(item) ==
    Request("POST", "GetJson", config, client, <<item.score>>)

GetJsonRequest(item) ==
    Request("POST", "GetJson", config, client, <<item.documentKey>>)

\* Search is answered; the first document lookup is issued.
SearchReturn ==
    /\ pc = "Search"
    /\ \E r \in Responses(SearchBodies) :
          LET res == search(r) IN
          /\ Heard("Search", r)
          /\ Frame
          /\ IF res = Null \/ NoRecords(res) \/ Len(res.records) = 0
             THEN /\ local' = Assign(local, "res", res)
                  /\ Say("Search returned no results")
                  /\ Return
             ELSE /\ local' = Assign(Assign(Assign(local, "res", res),
                                            "resultsCount", Len(res.records)),
                                     "resultNum", 1)
                  /\ Say("Found results")
                  /\ Send("GetJson", GetJsonRequest(res.records[1]))

\* The items of the final summary.
Summary ==
    [Dataset |-> config.name,
     TotalRecords |-> local.numberOfRecords,
     SearchableFields |-> Len(config.searchableFields),
     WordIndexingFields |-> Len(config.wordIndexingFields),
     FilterableFields |-> Len(config.filterableFields),
     FacetableFields |-> Len(config.facetableFields),
     SortableFields |-> Len(config.sortableFields),
     TestQueryResults |-> local.resultsCount]

\* A document lookup is answered; the next one is issued, or the summary is
\* written and loadDataset returns.  A null body makes `rec[0]` throw, which
\* main catches as a fatal error.
GetJsonReturn ==
    /\ pc = "GetJson"
    /\ \E r \in Responses({Null, Json(<<"{}">>)}) :
          LET rec == getJson(r) IN
          /\ Heard("GetJson", r)
          /\ UNCHANGED <<env, dataset, config, client>>
          /\ IF rec.exit
             THEN /\ local' = local
                  /\ summary' = summary
                  /\ Say("GetJson request failed")
                  /\ ProcessExit(-1)
             ELSE IF rec.value = Null
             THEN /\ local' = local
                  /\ summary' = summary
                  /\ Say("Fatal error")
                  /\ ProcessExit(-1)
             ELSE IF local.resultNum < Len(local.res.records)
             THEN /\ local' = Assign(local, "resultNum", local.resultNum + 1)
                  /\ summary' = summary
                  /\ out' = out
                  /\ Send("GetJson",
                          GetJsonRequest(local.res.records[local.resultNum + 1]))
             ELSE /\ local' = Assign(local, "resultNum", local.resultNum + 1)
                  /\ summary' = Summary
                  /\ Say("Dataset is ready for use!")
                  /\ Return

(***************************************************************************)
(* The specification.                                                      *)
(***************************************************************************)
Next ==
    \/ MainStart
    \/ MenuAnswer
    \/ LoginReturn
    \/ CreateOrOpenReturn
    \/ AnalyzeReturn
    \/ InitialStatusReturn
    \/ GetAllFieldsReturn
    \/ SetSearchableFieldsReturn
    \/ SetFilterableFieldsReturn
    \/ SetFacetableFieldsReturn
    \/ SetSortableFieldsReturn
    \/ SetWordIndexingFieldsReturn
    \/ GetSearchableFieldsReturn
    \/ GetSortableFieldsReturn
    \/ GetFacetableFieldsReturn
    \/ GetFilterableFieldsReturn
    \/ GetWordIndexingFieldsReturn
    \/ CreateRangeFilterReturn
    \/ CreateValueFilterReturn
    \/ CombineFiltersReturn
    \/ CreateBoostReturn
    \/ LoadStreamReturn
    \/ LoadStatusReturn
    \/ LoadPollReturn
    \/ LoadSleepWake
    \/ RecordCountReturn
    \/ IndexReturn
    \/ IndexPollReturn
    \/ IndexSleepWake
    \/ SearchReturn
    \/ GetJsonReturn

Spec == Init /\ [][Next]_vars

\* Every awaited promise settles: a pending request is answered, a sleep
\* ends after its 100 ms, the menu is answered.  The service reporting
\* Loading, or a state other than Ready, only finitely often is the bound
\* MaxPolls in the guards of LoadPollReturn and IndexPollReturn.
Fairness == WF_vars(Next)
FairSpec == Spec /\ Fairness


(***************************************************************************)
(* Vocabulary of the properties.                                           *)
(***************************************************************************)
Op(i) == log[i].req.op
Site(i) == log[i].site
\* Requests issued from the call site `site`.
Count(site) == Cardinality({i \in DOMAIN log : Site(i) = site})
\* The call at `site` was answered, and not with a 2xx response.
Failed(site) == site \in DOMAIN seen /\ seen[site] # "2xx"
\* The call at `site` was answered with a 2xx response.
Succeeded(site) == site \in DOMAIN seen /\ seen[site] = "2xx"
\* The state the most recent status poll observed is s.
Observed(s) ==
    "status" \in DOMAIN local /\ local.status # Null /\ local.status.systemState = s
\* The most recent status poll observed some state other than s.
ObservedOtherThan(s) ==
    "status" \in DOMAIN local /\ local.status # Null /\ local.status.systemState # s
\* The run has reached the final summary.
Summarized == summary # Null

SetSites ==
    <<"SetSearchableFields", "SetFilterableFields", "SetFacetableFields",
      "SetSortableFields", "SetWordIndexingFields">>
IsSetSite(e) == \E k \in DOMAIN SetSites : e.site = SetSites[k]

\* C1: if the Open phase (CreateOrOpen) fails, by a non-2xx response or by a
\* thrown request error, no request of any later phase is ever issued: the
\* only requests of the run are the login (if any) and CreateOrOpen itself.
C1_OpenFailureStopsRun ==
    Failed("CreateOrOpen") =>
        /\ \A i \in DOMAIN log : Op(i) \in {"login", "CreateOrOpen"}
        /\ pc = "done"
C1_Witness ==
    /\ pc = "done"
    /\ Failed("CreateOrOpen")
    /\ seen["CreateOrOpen"] = "non2xx"
    /\ Op(Len(log)) = "CreateOrOpen"


\* The phase a call site belongs to, in the order of the workflow.
PhaseOf(site) ==
    CASE site = "login" -> 0
      [] site = "CreateOrOpen" -> 1
      [] site \in {"AnalyzeString", "InitialStatus", "GetAllFields"} -> 2
      [] site \in {"SetSearchableFields", "SetFilterableFields",
                   "SetFacetableFields", "SetSortableFields",
                   "SetWordIndexingFields", "GetSearchableFields",
                   "GetSortableFields", "GetFacetableFields",
                   "GetFilterableFields", "GetWordIndexingFields"} -> 3
      [] site \in {"CreateRangeFilter", "CreateValueFilter", "CombineFilters",
                   "CreateBoost"} -> 4
      [] site = "LoadStream" -> 5
      [] site \in {"LoadStatus", "LoadPoll", "GetNumberOfJsonRecordsInDb"} -> 6
      [] site = "IndexDataSet" -> 7
      [] site = "IndexPoll" -> 8
      [] site = "Search" -> 9
      [] site = "GetJson" -> 10
\* Some request of phase n or later has been issued.
Reached(n) == \E i \in DOMAIN log : PhaseOf(Site(i)) >= n

\* C2: the requests of a run are issued in the fixed phase order Open,
\* Analyze, Configure fields, (optional filter/boost), Load, load-status
\* polls, Index, index-status polls, Search, document lookups, and a request
\* of a phase is sent only after the phase before it returned a success
\* signal: Open, Analyze, the five Set*, Load and Index answered 2xx (Analyze
\* with a status), the load wait did not end on the Error state, the index
\* wait did not end on a state other than Ready, the Search returned records.
C2_PhaseOrder ==
    /\ \A i, j \in DOMAIN log : i < j => PhaseOf(Site(i)) <= PhaseOf(Site(j))
    /\ Reached(2) => Succeeded("CreateOrOpen")
    /\ Reached(3) => Succeeded("AnalyzeString") /\ local.status0 # Null
    /\ Reached(4) => \A k \in DOMAIN SetSites : Succeeded(SetSites[k])
    /\ Reached(5) => \A k \in DOMAIN SetSites : Succeeded(SetSites[k])
    /\ Reached(6) => Succeeded("LoadStream")
    /\ pc = "IndexDataSet" => ~Observed(Error)
    /\ Reached(8) => Succeeded("IndexDataSet")
    /\ pc = "Search" => ~ObservedOtherThan(Ready)
    /\ Reached(10) => Succeeded("Search") /\ Len(local.res.records) > 0

\* C3: the five field-configuration requests are issued in the order
\* SetSearchableFields, SetFilterableFields, SetFacetableFields,
\* SetSortableFields, SetWordIndexingFields, and when one of them fails the
\* run ends there: it is the last request of the run.
C3_SetOrderAndAbort ==
    LET sets == SelectSeq(log, IsSetSite) IN
    /\ Len(sets) <= Len(SetSites)
    /\ \A k \in DOMAIN sets : sets[k].req.op = SetSites[k]
    /\ \A k \in DOMAIN SetSites :
          Failed(SetSites[k]) =>
              /\ pc = "done"
              /\ Site(Len(log)) = SetSites[k]
              /\ ~Summarized
C3_Witness ==
    /\ pc = "done"
    /\ Failed("SetFacetableFields")
    /\ Len(SelectSeq(log, IsSetSite)) = 3


\* The polls the two waiting loops have issued.
LoadPolls == Count("LoadPoll")
IndexPolls == Count("IndexPoll")

\* C4: the wait-for-load loop exits exactly when a poll observes a state
\* other than Loading or yields no status: after every poll that observes
\* Loading the next step issues another GetStatus poll, and a poll of the
\* loop is issued only when the loop is entered or right after a poll that
\* observed Loading, so none follows the first poll that did not.
C4_LoadWaitExit ==
    [][/\ (pc = "LoadSleep" /\ Observed(Loading)) =>
              (pc' = "LoadPoll" /\ LoadPolls' = LoadPolls + 1)
       /\ (LoadPolls' # LoadPolls) =>
              \/ pc = "LoadSleep" /\ Observed(Loading)
              \/ pc = "LoadStatus" /\ LoadPolls = 0
       /\ (pc = "LoadSleep" /\ ~Observed(Loading)) =>
              (pc' = "GetNumberOfJsonRecordsInDb" /\ LoadPolls' = LoadPolls)]_vars
C4_Witness ==
    /\ pc = "GetNumberOfJsonRecordsInDb"
    /\ LoadPolls = 2
    /\ Observed(Loaded)

\* C5: the wait-for-index loop exits exactly when a poll observes Ready or
\* yields no status: after every poll that observes a state other than
\* Ready (Created, Loading, Loaded, Indexing, Error, Hibernated) the next
\* step issues another GetStatus poll, and a poll of the loop is issued only
\* when the loop is entered or right after such a poll.
C5_IndexWaitExit ==
    [][/\ (pc = "IndexSleep" /\ ObservedOtherThan(Ready)) =>
              (pc' = "IndexPoll" /\ IndexPolls' = IndexPolls + 1)
       /\ (IndexPolls' # IndexPolls) =>
              \/ pc = "IndexSleep" /\ ObservedOtherThan(Ready)
              \/ pc = "IndexDataSet" /\ IndexPolls = 0
       /\ (pc = "IndexSleep" /\ ~ObservedOtherThan(Ready)) =>
              (pc' = "Search" /\ IndexPolls' = IndexPolls)]_vars
C5_Witness ==
    /\ pc = "Search"
    /\ IndexPolls = 3
    /\ Observed(Ready)

\* C6, as stated: when a poll of the wait-for-index loop observes the Error
\* state the loop exits, and the next request is the Search.
C6_ErrorExitsIndexWait ==
    [][(pc = "IndexSleep" /\ Observed(Error)) => pc' = "Search"]_vars

\* C6, amended: when a poll of the wait-for-index loop observes the Error
\* state the loop does not exit: the next step issues another GetStatus
\* poll, and the Search is issued only after a poll that observed Ready or
\* yielded no status.
C6_ErrorKeepsPolling ==
    [][/\ (pc = "IndexSleep" /\ Observed(Error)) =>
              (pc' = "IndexPoll" /\ IndexPolls' = IndexPolls + 1
               /\ Count("Search")' = 0)
       /\ (Count("Search")' # Count("Search")) =>
              (pc = "IndexSleep" /\ (Observed(Ready) \/ local.status = Null))]_vars
C6_Witness ==
    /\ pc = "IndexPoll"
    /\ IndexPolls = 2
    /\ Observed(Error)
    /\ Count("Search") = 0


\* C7: the Index phase is attempted only if the wait for load signaled
\* success: IndexDataSet is never requested when the poll that ended the wait
\* for load observed the Error state.
C7_NoIndexAfterLoadError ==
    (pc \in {"GetNumberOfJsonRecordsInDb", "IndexDataSet"}) => ~Observed(Error)

\* The status fetches of the two waits.
StatusSites == {"LoadStatus", "LoadPoll", "IndexPoll"}

\* C8: when a GetStatus fetch of the wait for load or of the wait for index
\* fails, by a non-2xx response or by a thrown request error, the run is
\* aborted there: the failed fetch is the last request of the run (no record
\* count, IndexDataSet, Search or GetJson follows) and no summary is emitted.
C8_StatusFailureAborts ==
    (last.site \in StatusSites /\ last.outcome # "2xx") =>
        /\ pc = "exited"
        /\ Site(Len(log)) = last.site
        /\ Count("Search") = 0
        /\ Count("GetJson") = 0
        /\ ~Summarized
C8_Witness ==
    /\ pc = "exited"
    /\ last = [site |-> "IndexPoll", outcome |-> "throw"]
    /\ Count("IndexPoll") = 2
    /\ Count("IndexDataSet") = 1

\* The required trigger requests.
TriggerSites == {"AnalyzeString", "LoadStream", "IndexDataSet"}
\* The trigger at `site` was answered with a failure: a non-2xx response, a
\* thrown request error, or (Analyze) a null result.
TriggerFailed(site) ==
    \/ Failed(site)
    \/ /\ site = "AnalyzeString"
       /\ Succeeded(site)
       /\ local.status0 = Null

\* C9: when one of the required trigger requests AnalyzeString, LoadStream,
\* IndexDataSet fails (null result, non-2xx response or thrown request
\* error) the run ends there: no request at all is issued after it.
C9_TriggerFailureAborts ==
    \A site \in TriggerSites :
        TriggerFailed(site) =>
            /\ pc = "done"
            /\ Site(Len(log)) = site
            /\ Count(site) = 1
            /\ ~Summarized
C9_Witness ==
    /\ pc = "done"
    /\ "IndexDataSet" \in DOMAIN seen
    /\ seen["IndexDataSet"] = "throw"
    /\ Site(Len(log)) = "IndexDataSet"

\* The name is that of one of the available datasets, whatever its case.
Known(datasetName) ==
    \E k \in DOMAIN getAvailableDatasets :
        toLowerCase(datasetName) = getAvailableDatasets[k]

\* C10: for a dataset name that is not a known dataset the descriptor lookup
\* finds nothing and the run ends without any network call: neither a login
\* call nor an API call is ever issued.
C10_UnknownDatasetNoNetwork ==
    (Truthy(env.dataset) /\ ~Known(env.dataset)) =>
        /\ log = <<>>
        /\ inflight = {}
        /\ pc \in {"main", "done"}
        /\ pc = "done" => (config = Null /\ dataset = env.dataset)
C10_Witness ==
    /\ env.dataset = <<"t", "m", "d", "b", "2">>
    /\ env.userEmail # ""
    /\ pc = "done"
    /\ config = Null
    /\ log = <<>>


\* The state on disk of the data file of the chosen descriptor.
DataFile == env.fs[config.filePath]

\* C11: when the data file of the descriptor does not exist, the run ends
\* without any HTTP request having been made, whether the credentials are a
\* bearer token or an email and password.
C11_MissingFileNoRequest ==
    (config # Null /\ DataFile = "missing") => log = <<>>

\* C12: no request is made unless the data file exists, is not empty and
\* is valid JSON: for a file that exists but is empty or is not valid JSON
\* no request is issued, not even CreateOrOpen.
C12_UnusableFileNoRequest ==
    (config # Null /\ DataFile \in {"empty", "invalid"}) => log = <<>>

\* The verification re-reads that follow the field configuration.
VerifySites ==
    {"GetSearchableFields", "GetSortableFields", "GetFacetableFields",
     "GetFilterableFields", "GetWordIndexingFields"}

\* C13: a failure of a verification re-read is not fatal: a run on a valid
\* data file does not end at the failed re-read.
C13_VerifyFailureNotFatal ==
    \A site \in VerifySites :
        (Failed(site) /\ DataFile = "valid") =>
            ~(pc \in {"done", "exited"} /\ Site(Len(log)) = site)

\* C14: after a successful Analyze, a failure of the GetAllFields fetch does
\* not end the run: a run on a valid data file does not stop at the failed
\* fetch.
C14_GetAllFieldsFailureNotFatal ==
    (Failed("GetAllFields") /\ DataFile = "valid") =>
        ~(pc \in {"done", "exited"} /\ Site(Len(log)) = "GetAllFields")


\* The requests of the optional filter/boost step.
FilterSites ==
    {"CreateRangeFilter", "CreateValueFilter", "CombineFilters", "CreateBoost"}
\* The body of the request issued from `site`, when there is exactly one.
BodyOf(site) ==
    log[CHOOSE i \in DOMAIN log : Site(i) = site].req.body

\* C15: in the filter/boost step CreateValueFilter is requested whatever
\* CreateRangeFilter returned; CombineFilters is requested only when both
\* returned a FilterProxy, and its body holds exactly those two proxies
\* combined with AND; CreateBoost is requested only when CombineFilters
\* returned a proxy, and its body holds that combined proxy.
C15_FilterBoostChain ==
    LET ranges == Count("CreateRangeFilter")
        values == Count("CreateValueFilter")
        combines == Count("CombineFilters")
        boosts == Count("CreateBoost")
    IN
    /\ ranges <= 1 /\ values <= 1 /\ combines <= 1 /\ boosts <= 1
    /\ (ranges = 1 /\ pc # "CreateRangeFilter") => values = 1
    /\ combines = 1 =>
           /\ ranges = 1 /\ values = 1
           /\ local.filt1 # Null /\ local.filt2 # Null
           /\ BodyOf("CombineFilters") =
                  [a |-> local.filt1, b |-> local.filt2, useAndOperation |-> TRUE]
           /\ BodyOf("CombineFilters").a = RangeProxy
           /\ BodyOf("CombineFilters").b = ValueProxy
    /\ pc = "CombineFilters" =>
           last = [site |-> "CreateValueFilter", outcome |-> "2xx"]
    /\ (values = 1 /\ pc \notin {"CreateRangeFilter", "CreateValueFilter"}
           /\ (local.filt1 = Null \/ local.filt2 = Null)) =>
           combines = 0
    /\ boosts = 1 =>
           /\ combines = 1
           /\ local.combFilt # Null
           /\ BodyOf("CreateBoost").filterProxy = local.combFilt
           /\ BodyOf("CreateBoost").boostStrength = BoostStrengthHigh
    /\ pc = "CreateBoost" =>
           last = [site |-> "CombineFilters", outcome |-> "2xx"]
    /\ (combines = 1 /\ pc # "CombineFilters" /\ local.combFilt = Null) =>
           boosts = 0
C15_Witness ==
    /\ pc = "CreateBoost"
    /\ BodyOf("CombineFilters") =
           [a |-> RangeProxy, b |-> ValueProxy, useAndOperation |-> TRUE]
    /\ BodyOf("CreateBoost").filterProxy = CombinedProxy

\* C16: the filter/boost step is best-effort: whatever the answer to
\* CreateRangeFilter, CreateValueFilter, CombineFilters and CreateBoost
\* (2xx, non-2xx or a thrown error) the run does not end in the step, and the
\* request that follows the step is LoadStream.
C16_FilterBoostBestEffort ==
    last.site \in FilterSites =>
        /\ pc \in FilterSites \cup {"LoadStream"}
        /\ exitCode = <<>>
        /\ last.site = "CreateBoost" => pc = "LoadStream"
        /\ last.outcome # "2xx" => pc \in {"CreateValueFilter", "LoadStream"}
        /\ pc = "LoadStream" =>
               /\ Site(Len(log)) = "LoadStream"
               /\ Site(Len(log) - 1) = last.site
C16_Witness ==
    /\ last = [site |-> "CombineFilters", outcome |-> "throw"]
    /\ pc = "LoadStream"
    /\ Count("CreateBoost") = 0


\* The test search gave nothing to look up: a null result, a result without
\* a record list, or an empty record list.
NoResults ==
    /\ "res" \in DOMAIN local
    /\ \/ local.res = Null
       \/ NoRecords(local.res)
       \/ Len(local.res.records) = 0

\* C17: when the test Search returns a null result (it failed), a result
\* without a record list or an empty record list, the run ends there: no
\* GetJson request is issued and the final summary is not emitted.
C17_EmptySearchAborts ==
    (Failed("Search") \/ NoResults) =>
        /\ pc = "done"
        /\ Site(Len(log)) = "Search"
        /\ Count("GetJson") = 0
        /\ ~Summarized
C17_Witness ==
    /\ Succeeded("Search")
    /\ local.res # Null
    /\ NoRecords(local.res)
    /\ pc = "done"

\* C18: a run that reaches the test search issues exactly one Search
\* request; its text is the testQuery of the descriptor, it asks for at most
\* 5 records, and it sorts by the first sortable field of the descriptor
\* (by none when the descriptor declares no sortable field).
C18_OneSearchWithPresetQuery ==
    /\ Count("Search") <= 1
    /\ (pc \in {"Search", "GetJson"} \/ "res" \in DOMAIN local \/ Summarized) =>
           Count("Search") = 1
    /\ Count("Search") = 1 =>
           LET q == BodyOf("Search") IN
           /\ q.text = config.testQuery
           /\ q.maxNumberOfRecordsToReturn = 5
           /\ q.sortBy = IF Len(config.sortableFields) > 0
                         THEN config.sortableFields[1] ELSE ""
           /\ (config.name = tmdb) => (q.text = "titanic" /\ q.sortBy = "popularity")
           /\ (config.name = pokedex) => (q.text = "raic" /\ q.sortBy = "name")
C18_Witness ==
    /\ pc = "GetJson"
    /\ config.name = pokedex
    /\ BodyOf("Search").sortBy = "name"
    /\ BodyOf("Search").maxNumberOfRecordsToReturn = 5

\* The requests that each start a phase.
PhaseSites ==
    {"CreateOrOpen", "AnalyzeString", "SetSearchableFields",
     "SetFilterableFields", "SetFacetableFields", "SetSortableFields",
     "SetWordIndexingFields", "LoadStream", "IndexDataSet", "Search"}
IsPhaseSite(e) == e.site \in PhaseSites
IsPhaseOp(e) == e.req.op \in PhaseSites

\* C19: no phase is retried: CreateOrOpen, AnalyzeString, the five Set*,
\* LoadStream, IndexDataSet and Search are each requested at most once in a
\* run, whether they succeed or fail.
C19_NoPhaseRetried ==
    LET bySite == SelectSeq(log, IsPhaseSite)
        byOp == SelectSeq(log, IsPhaseOp)
    IN  /\ \A i, j \in DOMAIN bySite : bySite[i].site = bySite[j].site => i = j
        /\ \A i, j \in DOMAIN byOp : byOp[i].req.op = byOp[j].req.op => i = j
C19_Witness ==
    /\ Failed("IndexDataSet")
    /\ Count("IndexDataSet") = 1
    /\ Count("LoadStream") = 1
    /\ Count("CreateOrOpen") = 1
    /\ pc = "done"


\* The JSON value is an object / an array.
IsObject(e) == "object" \in DOMAIN e
IsArray(e) == "array" \in DOMAIN e

\* C20, as stated: the body of SetSearchableFields holds each searchable
\* field as an ordered two-element tuple, the field name first and the
\* integer weight code second, never as an object with named properties.
C20_PositionalPairs ==
    Count("SetSearchableFields") = 1 =>
        LET body == BodyOf("SetSearchableFields")
            fields == config.searchableFields
        IN  /\ IsArray(body)
            /\ DOMAIN body.array = DOMAIN fields
            /\ \A k \in DOMAIN body.array :
                  /\ ~IsObject(body.array[k])
                  /\ IsArray(body.array[k])
                  /\ body.array[k].array = <<fields[k].name, fields[k].weight>>

\* C20, amended: the body of SetSearchableFields is an array with one object
\* per searchable field of the descriptor, in the descriptor's order; each
\* object has exactly the two properties Item1, the field name, and Item2,
\* the integer weight code (0, 1 or 2), and never the properties name and
\* weight.
C20_ItemObjects ==
    Count("SetSearchableFields") = 1 =>
        LET body == BodyOf("SetSearchableFields")
            fields == config.searchableFields
        IN  /\ IsArray(body)
            /\ DOMAIN body.array = DOMAIN fields
            /\ \A k \in DOMAIN body.array :
                  /\ IsObject(body.array[k])
                  /\ DOMAIN body.array[k].object = {"Item1", "Item2"}
                  /\ body.array[k].object.Item1 = fields[k].name
                  /\ body.array[k].object.Item2 = fields[k].weight
                  /\ body.array[k].object.Item2 \in {High, Med, Low}
C20_Witness ==
    /\ Count("SetSearchableFields") = 1
    /\ config.name = pokedex
    /\ BodyOf("SetSearchableFields") =
           Array(<<Object([Item1 |-> "name", Item2 |-> 0]),
                   Object([Item1 |-> "type1", Item2 |-> 1]),
                   Object([Item1 |-> "type2", Item2 |-> 2])>>)

\* Both kinds of credentials are configured.
BothCredentials ==
    /\ TruthyStr(env.bearerToken)
    /\ TruthyStr(env.userEmail)
    /\ TruthyStr(env.userPassword)

\* C21: when a bearer token and an email+password pair are both configured
\* the bearer token takes precedence: no login request is issued, and the
\* Authorization header of the client and of every request is the one made
\* from the configured token.
C21_BearerPrecedence ==
    BothCredentials =>
        /\ \A i \in DOMAIN log : Op(i) # "login"
        /\ pc \notin {"login"}
        /\ \A i \in DOMAIN log : log[i].req.auth = Bearer(env.bearerToken)
        /\ log # <<>> => client.Authorization = Bearer(env.bearerToken)
C21_Witness ==
    /\ BothCredentials
    /\ pc = "AnalyzeString"
    /\ client.Authorization = <<"Bearer", "tok">>
    /\ log[1].req.auth = <<"Bearer", "tok">>


\* C22: descriptor lookup is case-insensitive and agrees with the list of
\* valid names: the name looked up has a descriptor exactly when its
\* lower-cased form is one of the available datasets, the descriptor's name
\* is then that lower-cased form, and otherwise the lookup finds nothing.
C22_LookupAgreesWithList ==
    /\ pc \notin {"main", "menu"} =>
           /\ (config # Null) <=> Known(dataset)
           /\ config # Null => config.name = toLowerCase(dataset)
           /\ dataset = <<"T", "M", "D", "B">> => config # Null /\ config.name = tmdb
           /\ dataset = <<"P", "o", "k", "e", "D", "e", "x">> =>
                  config # Null /\ config.name = pokedex
    /\ pc = "main" =>
           \A n \in DatasetArgs :
               /\ (getConfig(n) # Null) <=>
                      (\E k \in DOMAIN getAvailableDatasets :
                           toLowerCase(n) = getAvailableDatasets[k])
               /\ getConfig(n) # Null => getConfig(n).name = toLowerCase(n)
C22_Witness ==
    /\ dataset = <<"P", "o", "k", "e", "D", "e", "x">>
    /\ config # Null
    /\ config.name = <<"p", "o", "k", "e", "d", "e", "x">>
    /\ pc = "CreateOrOpen"

\* The login was rejected: a non-2xx answer or a failed request.
LoginRejected == last.site = "login" /\ last.outcome # "2xx"

\* C23: the exit status of the process is nonzero whenever the run ends
\* through a fatal error (process.exit(-1), reached by an exception caught in
\* main, a rejected login among them) and is 0 whenever the run completes
\* through the final summary.
C23_ExitStatus ==
    /\ (exitCode # <<>>) <=> (pc \in {"done", "exited"})
    /\ pc = "exited" => exitCode = <<255>>
    /\ LoginRejected => (pc = "exited" /\ exitCode # <<0>>)
    /\ (out # <<>> /\ out[Len(out)] = "Fatal error") => exitCode = <<255>>
    /\ Summarized => (pc = "done" /\ exitCode = <<0>>)
C23_Witness ==
    /\ LoginRejected
    /\ pc = "exited"
    /\ exitCode = <<255>>
    /\ log[Len(log)].req.op = "login"

\* C24: the polling loops have no timeout and no maximum iteration count:
\* however many polls have been made, a poll of the wait for load that
\* reports Loading is followed by another poll and IndexDataSet is not
\* issued, and a poll of the wait for index that does not report Ready is
\* followed by another poll and Search is not issued; the number of polls
\* is the loop's counter, which the loop never tests.
C24_NoPollLimit ==
    [][/\ (pc = "LoadSleep" /\ Observed(Loading)) =>
              /\ pc' = "LoadPoll"
              /\ LoadPolls' = local.dotCount + 1
              /\ Count("IndexDataSet")' = 0
       /\ (pc = "IndexSleep" /\ ObservedOtherThan(Ready)) =>
              /\ pc' = "IndexPoll"
              /\ IndexPolls' = local.dotCount + 1
              /\ Count("Search")' = 0
       /\ (pc' \in {"LoadPoll", "LoadSleep"}) =>
              (LoadPolls' = local.dotCount' /\ Count("IndexDataSet")' = 0)
       /\ (pc' \in {"IndexPoll", "IndexSleep"}) =>
              (IndexPolls' = local.dotCount' /\ Count("Search")' = 0)]_vars
C24_Witness ==
    /\ pc = "IndexPoll"
    /\ IndexPolls = MaxPolls + 1
    /\ LoadPolls = MaxPolls + 1
    /\ ObservedOtherThan(Ready)
    /\ Count("Search") = 0


\* The requests every complete run issues once, in this order; the status
\* polls, the document lookups, the login and the filter example come on top.
CoreSites ==
    <<"CreateOrOpen", "AnalyzeString", "InitialStatus", "GetAllFields",
      "SetSearchableFields", "SetFilterableFields", "SetFacetableFields",
      "SetSortableFields", "SetWordIndexingFields",
      "GetSearchableFields", "GetSortableFields", "GetFacetableFields",
      "GetFilterableFields", "GetWordIndexingFields",
      "LoadStream", "LoadStatus", "GetNumberOfJsonRecordsInDb",
      "IndexDataSet", "Search">>
IsCoreSite(e) == \E k \in DOMAIN CoreSites : e.site = CoreSites[k]

\* What keeps a run from its summary: no descriptor, no credentials, no data
\* file, a request that failed, or an answer without the expected content.
Unhappy ==
    \/ config = Null
    \/ ~TruthyStr(env.bearerToken)
           /\ ~(TruthyStr(env.userEmail) /\ TruthyStr(env.userPassword))
    \/ DataFile = "missing"
    \/ last.outcome \in {"non2xx", "throw"}
    \/ last.site = "login" /\ log[Len(log)].site = "login"
    \/ "status0" \in DOMAIN local /\ local.status0 = Null
    \/ "list" \in DOMAIN local /\ local.list = Null
    \/ last.site = "GetNumberOfJsonRecordsInDb" /\ pc = "exited"
    \/ NoResults
    \/ last.site = "GetJson" /\ pc = "exited"

\* C25: the happy path.  A run for a known dataset with an existing file
\* ends without the summary only if some request failed or some answer
\* lacked its content; and a run that emits the summary has issued
\* CreateOrOpen, AnalyzeString, the five Set* in order, LoadStream,
\* IndexDataSet and Search once each in the workflow's order, at least one
\* poll in each wait, and one document lookup per record of the Search
\* result, and its summary reports the dataset, the record count, the field
\* counts and the number of results.
C25_HappyPath ==
    /\ (pc \in {"done", "exited"} /\ ~Summarized) => Unhappy
    /\ Summarized =>
           /\ pc = "done"
           /\ LET core == SelectSeq(log, IsCoreSite) IN
              [k \in DOMAIN core |-> core[k].site] = CoreSites
           /\ \A i \in 1..(Len(log) - 1) :
                  PhaseOf(Site(i)) <= PhaseOf(Site(i + 1))
           /\ \A site \in DOMAIN seen : seen[site] = "2xx"
           /\ LoadPolls >= 1
           /\ IndexPolls >= 1
           /\ ~ObservedOtherThan(Ready)
           /\ Len(local.res.records) >= 1
           /\ Count("GetJson") = Len(local.res.records)
           /\ Site(Len(log)) = "GetJson"
           /\ summary.Dataset = config.name
           /\ summary.TotalRecords = local.numberOfRecords
           /\ summary.SearchableFields = Len(config.searchableFields)
           /\ summary.TestQueryResults = Len(local.res.records)
C25_Witness ==
    /\ Summarized
    /\ config.name = tmdb
    /\ LoadPolls = 2
    /\ IndexPolls = 2
    /\ Count("GetJson") = 2
    /\ Observed(Ready)
    /\ exitCode = <<0>>

\* The places where the control flow waits for something other than a response.
SleepSites == {"LoadSleep", "IndexSleep"}
IdleSites == {"main", "menu", "done", "exited"}

NoCredentials ==
    /\ env.bearerToken = ""
    /\ env.userEmail = "" \/ env.userPassword = ""

\* The console messages loadDataset writes before its first request.
LoadDatasetOpening == {"Creating or opening dataset...", "Data file not found"}

\* C27: without credentials nothing reaches the network.  When neither a
\* bearer token nor a complete email and password pair is configured, no
\* login and no API request is ever issued, the client carries no
\* Authorization header, loadDataset is never entered, and the process does
\* not crash: it is still choosing the dataset or has returned from main.
C27_NoCredentialsNoNetwork ==
    NoCredentials =>
        /\ log = <<>>
        /\ inflight = {}
        /\ client.Authorization = <<>>
        /\ local = <<>>
        /\ \A k \in DOMAIN out : out[k] \notin LoadDatasetOpening
        /\ summary = Null
        /\ pc \in {"main", "menu", "done"}
        /\ exitCode \in {<<>>, <<0>>}
        /\ (pc = "done" /\ config # Null) =>
               out[Len(out)] = "No authentication credentials provided"
C27_Witness ==
    /\ NoCredentials
    /\ env.userEmail = "user@example.com"
    /\ pc = "done"
    /\ config # Null
    /\ out[Len(out)] = "No authentication credentials provided"
    /\ log = <<>>

\* The document lookups issued so far, in the order they were issued.
IsLookup(e) == e.site = "GetJson"
Lookups == SelectSeq(log, IsLookup)

\* The Search was answered with at least one record.
FoundRecords ==
    /\ "resultsCount" \in DOMAIN local
    /\ local.resultsCount >= 1

\* C28, as stated: after a non-empty Search result the run issues one
\* GetJson request per returned record, so a run that has ended has issued
\* as many lookups as the Search returned records.
C28_LookupPerRecord ==
    (FoundRecords /\ pc \in {"done", "exited"}) =>
        Len(Lookups) = Len(local.res.records)

\* C28, amended: the lookups follow the records as long as they succeed.
\* No lookup is issued without a non-empty Search result; after one, the
\* k-th GetJson request carries exactly the document key of the k-th record,
\* the lookups are the last requests of the run and never outnumber the
\* records; a run that reaches the summary has issued exactly one per record
\* and reports that number as its test-query result count, and a run that
\* ends with fewer was stopped by a failed lookup, with a nonzero exit status
\* and no summary, the remaining records not looked up.
C28_LookupsFollowRecords ==
    LET lookups == Lookups IN
    /\ ~FoundRecords => lookups = <<>>
    /\ FoundRecords =>
           /\ Len(lookups) \in 1..Len(local.res.records)
           /\ local.resultsCount = Len(local.res.records)
           /\ \A k \in DOMAIN lookups :
                  /\ lookups[k].req.method = "POST"
                  /\ lookups[k].req.op = "GetJson"
                  /\ lookups[k].req.ds = config.name
                  /\ lookups[k].req.body = <<local.res.records[k].documentKey>>
           /\ \A i \in DOMAIN log :
                  Site(i) = "GetJson" <=> i > Len(log) - Len(lookups)
           /\ Summarized =>
                  /\ Len(lookups) = Len(local.res.records)
                  /\ summary.TestQueryResults = Len(local.res.records)
           /\ pc = "done" => Summarized
           /\ (pc = "exited" /\ Len(lookups) < Len(local.res.records)) =>
                  /\ last.site = "GetJson"
                  /\ exitCode = <<255>>
                  /\ ~Summarized
C28_Witness ==
    /\ Summarized
    /\ Len(Lookups) = 2
    /\ Lookups[1].req.body = <<9>>
    /\ Lookups[2].req.body = <<7>>
    /\ summary.TestQueryResults = 2

\* The names and the weight codes of a SetSearchableFields body, entry by
\* entry.
SentNames(body) == [k \in DOMAIN body.array |-> body.array[k].object.Item1]
SentWeights(body) == [k \in DOMAIN body.array |-> body.array[k].object.Item2]
\* The same of a descriptor's searchable fields.
FieldNames(fields) == [k \in DOMAIN fields |-> fields[k].name]
FieldWeights(fields) == [k \in DOMAIN fields |-> fields[k].weight]

\* C29: the body of every SetSearchableFields request has as many entries
\* as the descriptor has searchable fields; read in order, the entries' names
\* are the descriptor's field names and their weight codes the descriptor's
\* weights, every code being 0, 1 or 2: for tmdb title 0, original_title 1,
\* description 1, actors 2, and for pokedex name 0, type1 1, type2 2.
C29_EntryPerSearchableField ==
    \A i \in DOMAIN log :
        Site(i) = "SetSearchableFields" =>
            LET body == log[i].req.body
                fields == config.searchableFields
            IN  /\ Len(body.array) = Len(fields)
                /\ SentNames(body) = FieldNames(fields)
                /\ SentWeights(body) = FieldWeights(fields)
                /\ \A k \in DOMAIN body.array : SentWeights(body)[k] \in 0..2
                /\ config.name = tmdb =>
                       /\ SentNames(body) =
                              <<"title", "original_title", "description", "actors">>
                       /\ SentWeights(body) = <<0, 1, 1, 2>>
                /\ config.name = pokedex =>
                       /\ SentNames(body) = <<"name", "type1", "type2">>
                       /\ SentWeights(body) = <<0, 1, 2>>
C29_Witness ==
    /\ pc = "SetSearchableFields"
    /\ config.name = tmdb
    /\ Len(BodyOf("SetSearchableFields").array) = 4
    /\ SentWeights(BodyOf("SetSearchableFields")) = <<0, 1, 1, 2>>

\* The requests of deleteDataSet, deleteDocument and clearFields, and the
\* HTTP methods main, login and loadDataset use.
CleanupOps == {"DeleteDataSet", "DeleteDocument", "ClearFieldSettings"}
WorkflowMethods == {"GET", "PUT", "POST"}

\* The run has ended without its summary after at least one request.
EndedInFailure == pc \in {"done", "exited"} /\ ~Summarized /\ log # <<>>

\* C30: no rollback, no cleanup.  No request of any run is a DeleteDataSet,
\* a document delete or a ClearFieldSettings, and none uses the DELETE
\* method; a run that ends in failure issues nothing after the failing
\* response, and the Set* requests sent before it stay the only field
\* settings sent, each once and in the configured order.
C30_NoCleanup ==
    /\ \A i \in DOMAIN log :
          /\ Op(i) \notin CleanupOps
          /\ log[i].req.method \in WorkflowMethods
    /\ EndedInFailure =>
          /\ last.site = Site(Len(log))
          /\ LET sets == SelectSeq(log, IsSetSite) IN
             /\ Len(sets) <= Len(SetSites)
             /\ \A k \in DOMAIN sets :
                   /\ sets[k].req.op = SetSites[k]
                   /\ sets[k].req.method = "PUT"
C30_Witness ==
    /\ EndedInFailure
    /\ Failed("LoadStream")
    /\ Site(Len(log)) = "LoadStream"
    /\ Len(SelectSeq(log, IsSetSite)) = 5

\* The host of an address: what follows '://' up to the port, the path, the
\* query or the end.
HostStart(u) ==
    3 + CHOOSE i \in 1..(Len(u) - 2) :
            /\ SubSeq(u, i, i + 2) = <<":", "/", "/">>
            /\ \A j \in 1..(i - 1) : SubSeq(u, j, j + 2) # <<":", "/", "/">>
HostEnd(u) ==
    LET stops == {i \in HostStart(u)..Len(u) : u[i] \in {":", "/", "?", "#"}}
    IN  IF stops = {} THEN Len(u)
        ELSE (CHOOSE i \in stops : \A j \in stops : i <= j) - 1
Host(u) == SubSeq(u, HostStart(u), HostEnd(u))

\* The names of the local machine: localhost and the loopback address.
LocalHosts == {localhost, <<"1", "2", "7", ".", "0", ".", "0", ".", "1">>}
IsLocalHost(h) == toLowerCase(h) \in LocalHosts

\* main has created the HTTP client.
ClientCreated == config # Null

\* C31: certificate validation is off only for the local machine.  Whenever
\* the client has been created with validation turned off, the host of the
\* configured address is localhost or the loopback address; for an address
\* whose host is any other machine validation stays on.
C31_ValidationOffOnlyLocal ==
    ClientCreated =>
        /\ ~client.rejectUnauthorized => IsLocalHost(Host(uri))
        /\ ~IsLocalHost(Host(uri)) => client.rejectUnauthorized

\* C32: the filter example is dataset specific.  CreateRangeFilter,
\* CreateValueFilter, CombineFilters and CreateBoost are requested only in a
\* run for pokedex; in a run for tmdb none of the four is ever requested and
\* LoadStream is the request right after the last verification re-read
\* (GetWordIndexingFields), while for pokedex a request of the filter example
\* stands between the two.
C32_FiltersOnlyForPokedex ==
    \A i \in DOMAIN log :
        /\ Site(i) \in FilterSites =>
               /\ config.name = pokedex
               /\ log[i].req.ds = pokedex
        /\ config.name = tmdb => Site(i) \notin FilterSites
        /\ Site(i) = "LoadStream" =>
               /\ i > 1
               /\ config.name = tmdb => Site(i - 1) = "GetWordIndexingFields"
               /\ config.name = pokedex => Site(i - 1) \in FilterSites
        /\ Site(i) = "CreateRangeFilter" =>
               /\ i > 1
               /\ Site(i - 1) = "GetWordIndexingFields"
C32_Witness ==
    /\ config # Null
    /\ config.name = tmdb
    /\ pc = "LoadStream"
    /\ Site(Len(log)) = "LoadStream"
    /\ Site(Len(log) - 1) = "GetWordIndexingFields"

\* C33: what the summary implies.  Whenever the final summary has been
\* emitted, CreateOrOpen, AnalyzeString, the five Set* requests, LoadStream,
\* IndexDataSet and Search were each answered with success, the last status
\* poll of the index wait observed the state Ready, and the Search returned
\* at least one record.
C33_SummaryImpliesSuccess ==
    Summarized =>
        /\ \A site \in PhaseSites : Succeeded(site)
        /\ IndexPolls >= 1
        /\ Observed(Ready)
        /\ FoundRecords
        /\ Len(local.res.records) >= 1

\* The run has ended: main returned or the process exited.
Ended == pc \in {"done", "exited"}

\* C34: termination.  Provided every request is answered, the service
\* reports a state other than Loading after finitely many polls of the load
\* wait and Ready after finitely many polls of the index wait, every run
\* ends, with the summary or with an abort, after finitely many status
\* polls.
C34_Terminates ==
    <>(/\ Ended
       /\ exitCode # <<>>
       /\ inflight = {}
       /\ LoadPolls <= MaxPolls + 2
       /\ IndexPolls <= MaxPolls + 2)
C34_Witness ==
    /\ Ended
    /\ Summarized
    /\ LoadPolls = MaxPolls + 1
    /\ IndexPolls = MaxPolls + 1

\* The login request has been answered.
LoginAnswered == "login" \in DOMAIN seen

\* C35: loadDataset runs only with an authenticated client.  Every request
\* other than the login carries the Authorization header the client holds,
\* and that header is the bearer header made from the configured token or,
\* when none is configured, from the token a successful login returned
\* before; the login itself is sent without a header.  When the login is
\* rejected, or answered 2xx without a token, the login stays the only
\* request of the run: no CreateOrOpen is ever issued.
C35_AuthenticatedClient ==
    /\ \A i \in DOMAIN log :
          IF Op(i) = "login"
          THEN /\ i = 1
               /\ log[i].req.auth = <<>>
               /\ env.bearerToken = ""
          ELSE /\ log[i].req.auth # <<>>
               /\ log[i].req.auth = client.Authorization
               /\ env.bearerToken # "" =>
                      log[i].req.auth = Bearer(env.bearerToken)
               /\ env.bearerToken = "" =>
                      /\ i > 1
                      /\ Op(1) = "login"
                      /\ Succeeded("login")
                      /\ log[i].req.auth = Bearer("jwt")
    /\ (LoginAnswered /\ (Failed("login") \/ client.Authorization = <<>>)) =>
          /\ Len(log) = 1
          /\ Ended
          /\ \A i \in DOMAIN log : Op(i) # "CreateOrOpen"
    /\ Failed("login") => exitCode = <<255>>
    /\ (Succeeded("login") /\ client.Authorization = <<>>) => exitCode = <<0>>
C35_Witness ==
    /\ env.bearerToken = ""
    /\ Succeeded("login")
    /\ pc = "CreateOrOpen"
    /\ log[1].req.auth = <<>>
    /\ log[2].req.auth = <<"Bearer", "jwt">>

\* The record-count fetch is answered in this step, and not with success.
RecordCountFails ==
    /\ pc = "GetNumberOfJsonRecordsInDb"
    /\ last'.site = "GetNumberOfJsonRecordsInDb"
    /\ last'.outcome \in {"non2xx", "throw"}

\* C36: a failed record-count fetch is not fatal.  When the fetch after the
\* load wait is answered non-2xx or throws, the count is taken as 0, the
\* process goes on and the next request is IndexDataSet; the count is never
\* changed afterwards, and the summary a run then emits reports it as its
\* total records.
C36_RecordCountFailureIsZero ==
    [][/\ RecordCountFails =>
              /\ pc' = "IndexDataSet"
              /\ "numberOfRecords" \in DOMAIN local'
              /\ local'.numberOfRecords = 0
              /\ log' = Append(log, [site |-> "IndexDataSet",
                                     req |-> Get("IndexDataSet")])
              /\ exitCode' = <<>>
       /\ "numberOfRecords" \in DOMAIN local =>
              local'.numberOfRecords = local.numberOfRecords
       /\ (~Summarized /\ summary' # Null) =>
              summary'.TotalRecords = local.numberOfRecords]_vars
C36_Witness ==
    /\ pc = "IndexDataSet"
    /\ last = [site |-> "GetNumberOfJsonRecordsInDb", outcome |-> "throw"]
    /\ local.numberOfRecords = 0
    /\ Site(Len(log)) = "IndexDataSet"
    /\ exitCode = <<>>

\* The requests that only read: GetStatus at its four call sites,
\* GetAllFields, the five Get*Fields and GetJson.
ReadSites ==
    StatusSites \cup VerifySites \cup {"InitialStatus", "GetAllFields", "GetJson"}

\* main returned: the process ends with status 0.
ReturnedZero == pc = "done" /\ exitCode = <<0>>

\* C37: exit status by kind of abort.  A run that ends by an early return
\* (unknown dataset, no credentials, missing data file, a failed
\* CreateOrOpen, AnalyzeString, Set*, LoadStream or IndexDataSet, a failed
\* or empty Search) ends with exit status 0, as a run that reaches the
\* summary does; a read request (GetStatus, GetAllFields, Get*Fields,
\* GetJson) that is answered non-2xx or throws ends the process at once, no
\* request after it and no summary, with the nonzero status 255.
C37_ExitStatusByAbort ==
    /\ (Ended /\ config = Null) => ReturnedZero
    /\ (Ended /\ NoCredentials) => ReturnedZero
    /\ (Ended /\ config # Null /\ client.Authorization # <<>>
              /\ DataFile = "missing") =>
           /\ ReturnedZero
           /\ out[Len(out)] = "Data file not found"
    /\ \A site \in PhaseSites : Failed(site) => (ReturnedZero /\ ~Summarized)
    /\ NoResults => (ReturnedZero /\ ~Summarized)
    /\ Summarized => ReturnedZero
    /\ (last.site \in ReadSites /\ last.outcome \in {"non2xx", "throw"}) =>
           /\ pc = "exited"
           /\ exitCode = <<255>>
           /\ exitCode # <<0>>
           /\ Site(Len(log)) = last.site
           /\ ~Summarized
C37_Witness ==
    /\ Failed("LoadStream")
    /\ ReturnedZero
    /\ Site(Len(log)) = "LoadStream"
    /\ out[Len(out)] = "Failed to load data"


====
